---- MODULE Spec2Model ----
(***************************************************************************)
(* A model of ikeaAssemble.py, the assembler for the IKEA instruction set. *)
(* Lines of the input file are strings; the helpers below compute on them  *)
(* character by character, as the Python code does.                        *)
(***************************************************************************)
EXTENDS Integers, Sequences, FiniteSets, TLC

\* ------------------------------------------------------------- bounds ---
\* Largest number of generated filler lines in a text segment.
MaxPad == 33

\* Largest number of generated declarations in a data segment.
MaxData == 256

\* Largest number of write_bytes calls of mixed sizes on one image.
MaxMixed == 6

\* ------------------------------------------------------ Python strings ---
Ch(s, i) == SubSeq(s, i, i)

HexDigits == "0123456789abcdef"

\* The characters matched by \w in the sample inputs (ASCII letters, digits, _).
WordAlphabet == "abcdefghijklmnopqrstuvwxyzABCDEFGHIJKLMNOPQRSTUVWXYZ0123456789_"

WordChars == { Ch(WordAlphabet, i) : i \in 1..Len(WordAlphabet) }

\* The value of a digit character in base 16 (-1 when it is not a digit).
DigitVal(c) ==
    IF \E d \in 0..15 : Ch(HexDigits, d + 1) = c
    THEN CHOOSE d \in 0..15 : Ch(HexDigits, d + 1) = c
    ELSE -1

\* s.find(c): zero-based index of the first occurrence of c, -1 when absent
\* (str.index raises ValueError exactly when this is -1).
IndexOf(s, c) ==
    IF \E k \in 1..Len(s) : Ch(s, k) = c
    THEN (CHOOSE k \in 1..Len(s) :
             Ch(s, k) = c /\ \A j \in 1..(k - 1) : Ch(s, j) # c) - 1
    ELSE -1

\* s.replace(c, "") for a one-character c.
RECURSIVE Remove(_, _)
Remove(s, c) ==
    IF s = "" THEN ""
    ELSE (IF Ch(s, 1) = c THEN "" ELSE Ch(s, 1)) \o Remove(Tail(s), c)

\* s.split(c) for a one-character c: always at least one piece.
RECURSIVE Split(_, _)
Split(s, c) ==
    LET k == IndexOf(s, c)
    IN  IF k = -1 THEN <<s>>
        ELSE <<SubSeq(s, 1, k)>> \o Split(SubSeq(s, k + 2, Len(s)), c)

\* The digits of n >= 0 in the given base, most significant first.
RECURSIVE DigitsOf(_, _)
DigitsOf(n, base) ==
    IF n < base THEN Ch(HexDigits, n + 1)
    ELSE DigitsOf(n \div base, base) \o Ch(HexDigits, (n % base) + 1)

RECURSIVE ZeroPad(_, _)
ZeroPad(s, width) == IF Len(s) >= width THEN s ELSE ZeroPad("0" \o s, width)

\* format(n, '0<width><b|x|d>'): sign-aware zero padding to a MINIMUM width.
Format(n, base, width) ==
    IF n < 0 THEN "-" \o ZeroPad(DigitsOf(-n, base), width - 1)
    ELSE ZeroPad(DigitsOf(n, base), width)

\* str(n) of an integer.
Str(n) == Format(n, 10, 1)

\* The value of a string of digits in the given base (all characters digits).
RECURSIVE DigitsValue(_, _)
DigitsValue(s, base) ==
    IF s = "" THEN 0
    ELSE DigitsValue(SubSeq(s, 1, Len(s) - 1), base) * base
         + DigitVal(Ch(s, Len(s)))

IsDigits(s, base) ==
    /\ s # ""
    /\ \A k \in 1..Len(s) : DigitVal(Ch(s, k)) \in 0..(base - 1)

\* int(s): an optional sign and decimal digits; anything else is a ValueError.
ParseInt(s) ==
    LET signed == s # "" /\ Ch(s, 1) \in {"+", "-"}
        body   == IF signed THEN Tail(s) ELSE s
    IN  IF ~IsDigits(body, 10) THEN [err |-> "ValueError", val |-> 0]
        ELSE [err |-> "none",
              val |-> IF signed /\ Ch(s, 1) = "-"
                      THEN 0 - DigitsValue(body, 10)
                      ELSE DigitsValue(body, 10)]

\* ---------------------------------------------------- helper functions ---
convert_8_bit_bin(item) ==
    LET p == ParseInt(Remove(item, "X"))
        num_2_parse == IF p.val < 0 THEN p.val + 256 ELSE p.val
    IN  IF p.err # "none" THEN [err |-> p.err, val |-> ""]
        ELSE [err |-> "none", val |-> Format(num_2_parse, 2, 8)]

convert_nibble_hex(item) ==
    LET p == ParseInt(Remove(item, "X"))
    IN  IF p.err # "none" THEN [err |-> p.err, val |-> ""]
        ELSE IF ~(p.val < 16 /\ p.val >= 0)
             THEN [err |-> "AssertionError", val |-> ""]
             ELSE [err |-> "none", val |-> Format(p.val, 16, 1)]

convert_1_byte_hex(item) ==
    LET p == ParseInt(Remove(item, "X"))
        num_2_parse == IF p.val < 0 THEN p.val + 256 ELSE p.val
    IN  IF p.err # "none" THEN [err |-> p.err, val |-> ""]
        ELSE [err |-> "none", val |-> Format(num_2_parse, 16, 2)]

\* 2^64 + n does not fit TLC's integers, so the two's complement of a
\* negative n is computed on its digits: for -2^24 <= n < 0 the 16-digit
\* numeral of n + 2^64 is ten f digits followed by the six digits of n + 2^24.
convert_8_byte_hex(item) ==
    LET p == ParseInt(Remove(item, "X"))
    IN  IF p.err # "none" THEN [err |-> p.err, val |-> ""]
        ELSE IF p.val < 0
             THEN [err |-> "none",
                   val |-> "ffffffffff" \o Format(p.val + 16777216, 16, 6)]
             ELSE [err |-> "none", val |-> Format(p.val, 16, 16)]

\* ---------------------------------------------------------- RAMROM_dict ---
\* self.keys: the row keys in insertion order.
keys == << "00", "10", "20", "30", "40", "50", "60", "70",
           "80", "90", "a0", "b0", "c0", "d0", "e0", "f0" >>

KeySet == { keys[k] : k \in 1..Len(keys) }

\* self.keys.index(key), zero-based.
KeyIndex(key) == (CHOOSE k \in 1..Len(keys) : keys[k] = key) - 1

\* RAMROM_dict(): sixteen rows of sixteen "00" cells, cursor at ("00", 0).
\* A row is a sequence; cell idx of the Python list is element idx + 1.
RAMROM_dict ==
    [ image_file  |-> [key \in KeySet |-> [c \in 1..16 |-> "00"]],
      current_loc |-> << "00", 0 >> ]

HEX_IN_BYTE == 2

\* __update_current_loc(byte_size): the new cursor, or MemoryError.
update_current_loc_default8(self, byte_size) ==
    LET MAX_BYTE_IN_ROW == 16 - 8
        current_key == self.current_loc[1]
        current_idx == self.current_loc[2]
    IN  IF self.current_loc = << "f0", 16 - 8 >>
        THEN [err |-> "MemoryError", loc |-> self.current_loc]
        ELSE IF current_idx # MAX_BYTE_IN_ROW
             THEN [err |-> "none", loc |-> << current_key, current_idx + 8 >>]
             ELSE [err |-> "none",
                   loc |-> << keys[KeyIndex(current_key) + 1 + 1], 0 >>]

update_current_loc(self, byte_size) ==
    LET MAX_BYTE_IN_ROW == 16 - byte_size
        current_key == self.current_loc[1]
        current_idx == self.current_loc[2]
    IN  IF self.current_loc = << "f0", 16 - byte_size >>
        THEN [err |-> "MemoryError", loc |-> self.current_loc]
        ELSE IF current_idx # MAX_BYTE_IN_ROW
             THEN [err |-> "none",
                   loc |-> << current_key, current_idx + byte_size >>]
             ELSE [err |-> "none",
                   loc |-> << keys[KeyIndex(current_key) + 1 + 1], 0 >>]

\* The loop of write_bytes, for i = byte_size - 1 down to 0: each iteration
\* stores one two-digit slice of to_write, or stops with IndexError when the
\* cell index is past the end of the row.
RECURSIVE WriteLoop(_, _, _, _, _)
WriteLoop(image_file, current_key, current_idx, to_write, i) ==
    IF i < 0 THEN [err |-> "none", image_file |-> image_file]
    ELSE IF current_idx + i > 15
         THEN [err |-> "IndexError", image_file |-> image_file]
         ELSE WriteLoop(
                [image_file EXCEPT ![current_key][current_idx + i + 1] =
                    SubSeq(to_write, HEX_IN_BYTE * i + 1,
                           HEX_IN_BYTE * i + HEX_IN_BYTE)],
                current_key, current_idx, to_write, i - 1)

\* write_bytes(to_write, byte_size): the image after the call, what the call
\* returned (ret) and the exception it raised (err, "none" when it returned).
write_bytes(self, to_write, byte_size) ==
    LET current_key == self.current_loc[1]
        current_idx == self.current_loc[2]
        loop == WriteLoop(self.image_file, current_key, current_idx,
                          to_write, byte_size - 1)
        written == [self EXCEPT !.image_file = loop.image_file]
        nibble == convert_nibble_hex(Str(current_idx))
        memory_address == Ch(current_key, 1) \o nibble.val
        upd == update_current_loc(written, byte_size)
    IN  IF Len(to_write) # byte_size * HEX_IN_BYTE
        THEN [self |-> self, err |-> "AssertionError", ret |-> ""]
        ELSE IF loop.err # "none"
        THEN [self |-> written, err |-> loop.err, ret |-> ""]
        ELSE IF nibble.err # "none"
        THEN [self |-> written, err |-> nibble.err, ret |-> ""]
        ELSE IF upd.err # "none"
        THEN [self |-> written, err |-> upd.err, ret |-> ""]
        ELSE [self |-> [written EXCEPT !.current_loc = upd.loc],
              err  |-> "none",
              ret  |-> Format(DigitsValue(memory_address, 16), 2, 8)]

\* mem_addr_preview(instruction_num).
mem_addr_preview(instruction_num) ==
    LET instruction_idx == instruction_num * 8
    IN  convert_8_bit_bin(Str(instruction_idx))

\* generate_image_file: the lines of the text written to the file.
RECURSIVE RowText(_)
RowText(row) ==
    IF row = << >> THEN "" ELSE " " \o Head(row) \o RowText(Tail(row))

generate_image_file(self) ==
    << "v3.0 hex words addressed" >> \o
    [k \in 1..Len(keys) |-> keys[k] \o ":" \o RowText(self.image_file[keys[k]])]

\* ------------------------------------------------- instruction tables ---
INSTRUCTION_CODES ==
    [ c \in { "ADD", "ADD_SETFLAG", "SUB", "SUB_SETFLAG", "AND", "OR", "LOAD",
              "STORE", "ADDRESS", "SET", "SET::IMM", "BRANCH", "BRANCH_LINK",
              "BRANCH_IF_ZERO", "BRANCH_IF_NOT_ZERO", "RETURN" } |->
      CASE c = "ADD"                -> "0000100000000000100000001000000000000000"
        [] c = "ADD_SETFLAG"        -> "1000100000000000100000000100000000000000"
        [] c = "SUB"                -> "0000100000000000010000000010000000000000"
        [] c = "SUB_SETFLAG"        -> "1000100000000000010000000001000000000000"
        [] c = "AND"                -> "0000100000000000001000000000100000000000"
        [] c = "OR"                 -> "0000100000000000000100000000010000000000"
        [] c = "LOAD"               -> "0100010000000000100000000000001000000000"
        [] c = "STORE"              -> "0101000001000000100000000000000100000000"
        [] c = "ADDRESS"            -> "0100100000000000000001000000000000000001"
        [] c = "SET"                -> "0000100000000000000001000000000010000000"
        [] c = "SET::IMM"           -> "0100100000000000000001000000000001000000"
        [] c = "BRANCH"             -> "0100000100000000000010000000000000100000"
        [] c = "BRANCH_LINK"        -> "0100000100000000000010000000000000010000"
        [] c = "BRANCH_IF_ZERO"     -> "0100001000000000000000100000000000001000"
        [] c = "BRANCH_IF_NOT_ZERO" -> "0100001000000000000000100000000000000100"
        [] c = "RETURN"             -> "0000000010000000000001000000000000000010" ]

CAT1 == { "ADD", "ADD_SETFLAG", "SUB", "SUB_SETFLAG", "AND", "OR" }

CAT2 == { "LOAD" }

CAT3 == { "ADDRESS" }

CAT4 == { "STORE" }

CAT5 == { "SET" }

CAT6 == { "SET::IMM" }

CAT7 == { "BRANCH", "BRANCH_LINK" }

CAT8 == { "BRANCH_IF_ZERO", "BRANCH_IF_NOT_ZERO" }

CAT9 == { "RETURN" }

EIGHT_ZEROES == "00000000"

\* ------------------------------------------------------- label prescan ---
\* The length of the longest prefix of s made of \w characters.
RECURSIVE WordPrefixLen(_)
WordPrefixLen(s) ==
    IF s # "" /\ Ch(s, 1) \in WordChars THEN 1 + WordPrefixLen(Tail(s)) ELSE 0

\* re.compile(r"^\w+:").search(s).group(), or "" when there is no match: the
\* colon is not a \w character, so it can only follow the whole \w prefix.
LabelMatch(s) ==
    LET k == WordPrefixLen(s)
    IN  IF k >= 1 /\ k < Len(s) /\ Ch(s, k + 1) = ":" THEN SubSeq(s, 1, k + 1) ELSE ""

\* re.sub(r"^\w+:", "", s).
StripLabel(s) == SubSeq(s, Len(LabelMatch(s)) + 1, Len(s))

\* d[k] = v on a dictionary, a function on the set of its keys.
Put(d, k, v) == [x \in (DOMAIN d) \cup {k} |-> IF x = k THEN v ELSE d[x]]

\* generate_label_lookup: the loop over range(len(instructions)), from i on.
RECURSIVE LabelLoop(_, _, _)
LabelLoop(instructions, i, label_lookup) ==
    IF i >= Len(instructions) THEN label_lookup
    ELSE LET current_instruction == instructions[i + 1]
             re_search_result == LabelMatch(current_instruction)
         IN  LabelLoop(instructions, i + 1,
                 IF re_search_result # ""
                 THEN Put(label_lookup, re_search_result,
                          mem_addr_preview(i).val)
                 ELSE label_lookup)

generate_label_lookup(instructions) == LabelLoop(instructions, 0, << >>)

\* --------------------------------------------------- generate_binary ---
\* isinstance(param, int) for an element of str.split: always a str.
IsInstanceInt(param) == FALSE

\* generate_binary(instruction_dict, label_lookup, instruction): the exception
\* raised (err) and the value returned (ret): << >> is Python's None, << w >>
\* the string w.  The function never touches instruction_dict.
generate_binary(instruction_dict, label_lookup, instruction) ==
    LET space_idx == IndexOf(instruction, " ")
        command == StripLabel(SubSeq(instruction, 1, space_idx))
        instruction_params ==
            Split(SubSeq(instruction, space_idx + 2, Len(instruction)), ",")
        n == Len(instruction_params)
        opcode == INSTRUCTION_CODES[command]
        Raise(e) == [err |-> e, ret |-> << >>]
        Return(r) == [err |-> "none", ret |-> r]
    IN  IF space_idx = -1 THEN Raise("ValueError")
        ELSE IF \E k \in 1..n : IsInstanceInt(instruction_params[k])
        THEN Raise("TypeError")
        ELSE IF command \notin DOMAIN INSTRUCTION_CODES THEN Raise("KeyError")
        ELSE IF command \in CAT1 \/ command \in CAT2
        THEN IF n < 3 THEN Raise("IndexError")
             ELSE Return(<< opcode \o instruction_params[3]
                             \o instruction_params[2] \o instruction_params[1] >>)
        ELSE IF command \in CAT3 THEN Return(<< >>)
        ELSE IF command \in CAT4
        THEN IF n < 3 THEN Raise("IndexError")
             ELSE Return(<< opcode \o instruction_params[3]
                             \o instruction_params[1] \o instruction_params[2] >>)
        ELSE IF command \in CAT5 \/ command \in CAT6
        THEN IF n < 2 THEN Raise("IndexError")
             ELSE Return(<< opcode \o instruction_params[2] \o EIGHT_ZEROES
                             \o instruction_params[1] >>)
        ELSE IF command \in CAT7 THEN Return(<< >>)
        ELSE IF command \in CAT8 THEN Return(<< >>)
        ELSE IF command \in CAT9
        THEN Return(<< opcode \o convert_8_bit_bin("X30").val
                        \o EIGHT_ZEROES \o EIGHT_ZEROES >>)
        ELSE Return(<< >>)

\* ------------------------------------------------------ generate_memory ---
\* generate_memory(memory_dict, memory_lookup, current_mem_instruction): the
\* image and the lookup table after the call and the exception it raised.
generate_memory(memory_dict, memory_lookup, current_mem_instruction) ==
    LET idx_colon == IndexOf(current_mem_instruction, ":")
        label == SubSeq(current_mem_instruction, 1, idx_colon)
        storage == SubSeq(current_mem_instruction, idx_colon + 2,
                          Len(current_mem_instruction))
        storage_hex == convert_1_byte_hex(storage)
        w == write_bytes(memory_dict, storage_hex.val, 1)
        Raise(e, d) == [err |-> e, memory_dict |-> d,
                        memory_lookup |-> memory_lookup]
    IN  IF idx_colon = -1 THEN Raise("ValueError", memory_dict)
        ELSE IF storage_hex.err # "none"
        THEN Raise(storage_hex.err, memory_dict)
        ELSE IF w.err # "none" THEN Raise(w.err, w.self)
        ELSE [err |-> "none", memory_dict |-> w.self,
              memory_lookup |-> Put(memory_lookup, label, w.ret)]

\* ---------------------------------------------------------- the state ---
VARIABLES
    pc,             \* the statement of generate_image_files that runs next
    instructions,   \* the lines of the .text segment
    memory_data,    \* the lines of the .data segment
    rom,            \* the RAMROM_dict of the instructions
    ram,            \* the RAMROM_dict of the data
    memory_lookup,  \* label -> address of the data declarations
    label_lookup,   \* label -> predicted address of the instructions
    idx,            \* the position of the running for loop
    words,          \* what generate_binary returned, call by call
    error,          \* the exception that was raised, "none" when none was
    ram_file,       \* the lines written to ram_file_path, << >> before
    rom_file,       \* the lines written to rom_file_path, << >> before
    byte_size,      \* image test: the size of every write, 0 for mixed sizes
    item,           \* image test: the number whose numeral is written
    mem_addr,       \* image test: what the last returning write_bytes returned
    total,          \* image test: bytes written by the calls that returned
    calls           \* image test: number of calls of mixed size so far

vars == << pc, instructions, memory_data, rom, ram, memory_lookup,
           label_lookup, idx, words, error, ram_file, rom_file,
           byte_size, item, mem_addr, total, calls >>

imageVars == << byte_size, item, mem_addr, total, calls >>

\* ---------------------------------------------------------- the inputs ---
\* Text segments as the preprocessing hands them over (labels merged with the
\* following line, no blank after a comma or a colon).
Heads ==
    { << >>,
      << "ADD X1,X2,X3" >>,
      << "BRANCH end", "ADD X1,X2,X3", "end:RETURN" >>,
      << "ADD X1,X2,X3", "ADD X10,X20,X30" >>,
      << "SET::IMM X1,5" >>,
      << "loop:SUB X1,X1,X2", "BRANCH_IF_NOT_ZERO X1,loop", "ADDRESS X2,foo" >>,
      << "top:BRANCH_LINK end", "BRANCH_IF_ZERO X1,top", "end:ADD X1,X2,X3" >>,
      << "BRANCH nowhere" >>,
      << "NOP X1" >>,
      << "ADD X1,X2" >>,
      << "STORE X1,X2,-4", "SET X3,X4", "LOAD X1,X2,8", "x:SET::IMM X1,5",
         "RETURN X30" >> }

\* k filler instructions; every eighth one carries a label, so that the line
\* at index 0, 8, 16, 24, 32 is labelled.
Pad(k) ==
    [j \in 1..k |-> IF (j - 1) % 8 = 0
                    THEN "l" \o Str(j - 1) \o ":ADD X1,X2,X3"
                    ELSE "ADD X1,X2,X3"]

Texts == Heads \cup { Pad(k) : k \in 2..MaxPad }

SmallDatas ==
    { << >>,
      << "foo:5" >>,
      << "foo:-1" >>,
      << "foo:200" >>,
      << "foo:128", "bar:-129" >>,
      << "foo:5", "foo:6" >>,
      << "foo:256" >>,
      << "foo" >> }

\* k data declarations d1:1, d2:2, ...
DataPad(k) == [j \in 1..k |-> "d" \o Str(j) \o ":" \o Str(j % 100)]

BigDatas == { DataPad(MaxData - 1), DataPad(MaxData) }

\* The files: .text, the text segment, .data, the data segment.
Files ==
    { << ".text" >> \o t \o << ".data" >> \o d : t \in Texts, d \in SmallDatas }
    \cup { << ".text", "ADD X1,X2,X3", ".data" >> \o d : d \in BigDatas }

\* list.index(x), zero-based.
ListIndex(list, x) == (CHOOSE k \in 1..Len(list) : list[k] = x) - 1

\* ------------------------------------------------ generate_image_files ---
\* The state when the loop of step 2 is about to start: the file is split at
\* its segment markers and both images and the data lookup table are new.
Init ==
    \E fileArr \in Files :
        /\ instructions = SubSeq(fileArr, ListIndex(fileArr, ".text") + 2,
                                 ListIndex(fileArr, ".data"))
        /\ memory_data = SubSeq(fileArr, ListIndex(fileArr, ".data") + 2,
                                Len(fileArr))
        /\ rom = RAMROM_dict
        /\ ram = RAMROM_dict
        /\ memory_lookup = << >>
        /\ label_lookup = << >>
        /\ pc = "memory"
        /\ idx = 0
        /\ words = << >>
        /\ error = "none"
        /\ ram_file = << >>
        /\ rom_file = << >>
        /\ byte_size = 0
        /\ item = ""
        /\ mem_addr = ""
        /\ total = 0
        /\ calls = 0

\* One turn of the loop of step 2.
GenerateMemory ==
    /\ pc = "memory"
    /\ idx < Len(memory_data)
    /\ LET r == generate_memory(ram, memory_lookup, memory_data[idx + 1])
       IN  /\ ram' = r.memory_dict
           /\ memory_lookup' = r.memory_lookup
           /\ error' = r.err
           /\ IF r.err = "none"
              THEN pc' = "memory" /\ idx' = idx + 1
              ELSE pc' = "raised" /\ idx' = idx
    /\ UNCHANGED << instructions, memory_data, rom, label_lookup, words,
                    ram_file, rom_file >>
    /\ UNCHANGED imageVars

\* Step 3, first statement: the prescan, once the loop of step 2 is over.
GenerateLabelLookup ==
    /\ pc = "memory"
    /\ idx = Len(memory_data)
    /\ label_lookup' = generate_label_lookup(instructions)
    /\ pc' = "binary"
    /\ idx' = 0
    /\ UNCHANGED << instructions, memory_data, rom, ram, memory_lookup, words,
                    error, ram_file, rom_file >>
    /\ UNCHANGED imageVars

\* One turn of the loop of step 3.
GenerateBinary ==
    /\ pc = "binary"
    /\ idx < Len(instructions)
    /\ LET r == generate_binary(rom, label_lookup, instructions[idx + 1])
       IN  /\ error' = r.err
           /\ IF r.err = "none"
              THEN /\ words' = Append(words, r.ret)
                   /\ pc' = "binary"
                   /\ idx' = idx + 1
              ELSE /\ words' = words
                   /\ pc' = "raised"
                   /\ idx' = idx
    /\ UNCHANGED << instructions, memory_data, rom, ram, memory_lookup,
                    label_lookup, ram_file, rom_file >>
    /\ UNCHANGED imageVars

\* The loop of step 3 is over and step 4 begins.
Step4Ready_early == pc = "binary"

Step4Ready == pc = "binary" /\ idx = Len(instructions)

\* Step 4, first statement.
GenerateRamFile ==
    /\ Step4Ready
    /\ ram_file' = generate_image_file(ram)
    /\ pc' = "rom_file"
    /\ UNCHANGED << instructions, memory_data, rom, ram, memory_lookup,
                    label_lookup, idx, words, error, rom_file >>
    /\ UNCHANGED imageVars

\* Step 4, second statement.
GenerateRomFile ==
    /\ pc = "rom_file"
    /\ rom_file' = generate_image_file(rom)
    /\ pc' = "done"
    /\ UNCHANGED << instructions, memory_data, rom, ram, memory_lookup,
                    label_lookup, idx, words, error, ram_file >>
    /\ UNCHANGED imageVars

Next ==
    \/ GenerateMemory
    \/ GenerateLabelLookup
    \/ GenerateBinary
    \/ GenerateRamFile
    \/ GenerateRomFile

Spec == Init /\ [][Next]_vars

\* ------------------------------------------- write_bytes on one image ---
\* A RAMROM_dict driven directly through write_bytes: every call writes the
\* numeral of item, either always in the same size (byte_size) or, when
\* byte_size is 0, in a size chosen call by call.
Sizes == { 1, 2, 4, 8, 16 }

\* The numbers written, as the strings handed to the converters.  A negative
\* number is only given to the sizes that have a two's complement converter.
Items(size) == IF size \in { 1, 8 } THEN { "1", "258", "-2" } ELSE { "1", "258" }

MixedItem == "18"

\* The hexadecimal numeral of item in size bytes, most significant digit first:
\* by convert_1_byte_hex and convert_8_byte_hex for the sizes these serve, by
\* the same format call with the width of the size for the others.
Numeral(it, size) ==
    IF size = 1 THEN convert_1_byte_hex(it).val
    ELSE IF size = 8 THEN convert_8_byte_hex(it).val
    ELSE Format(ParseInt(it).val, 16, HEX_IN_BYTE * size)

\* The address of a cursor: the row's base address plus the offset in the row.
Addr(loc) == 16 * KeyIndex(loc[1]) + loc[2]

\* The cell of an image at an address.
Cell(self, a) == self.image_file[keys[(a \div 16) + 1]][(a % 16) + 1]

InitImage ==
    /\ pc = "image"
    /\ instructions = << >>
    /\ memory_data = << >>
    /\ rom = RAMROM_dict
    /\ ram = RAMROM_dict
    /\ memory_lookup = << >>
    /\ label_lookup = << >>
    /\ idx = 0
    /\ words = << >>
    /\ error = "none"
    /\ ram_file = << >>
    /\ rom_file = << >>
    /\ byte_size \in Sizes \cup { 0 }
    /\ item \in IF byte_size = 0 THEN { MixedItem } ELSE Items(byte_size)
    /\ mem_addr = ""
    /\ total = 0
    /\ calls = 0

\* One call rom.write_bytes(Numeral(item, size), size).
WriteBytes ==
    /\ pc = "image"
    /\ \E size \in Sizes :
        /\ byte_size = 0 => calls < MaxMixed
        /\ byte_size # 0 => size = byte_size
        /\ LET w == write_bytes(rom, Numeral(item, size), size)
           IN  /\ rom' = w.self
               /\ error' = w.err
               /\ mem_addr' = IF w.err = "none" THEN w.ret ELSE mem_addr
               /\ total' = IF w.err = "none" THEN total + size ELSE total
    /\ calls' = IF byte_size = 0 THEN calls + 1 ELSE calls
    /\ UNCHANGED << pc, instructions, memory_data, ram, memory_lookup,
                    label_lookup, idx, words, ram_file, rom_file,
                    byte_size, item >>

NextImage == WriteBytes

SpecImage == InitImage /\ [][NextImage]_vars

\* ============================================================ claims ===
\* What the claims speak about, read off the state.
Mnemonics == DOMAIN INSTRUCTION_CODES

\* The text of a line before its first blank (the whole line without one).
CommandPart(line) ==
    IF IndexOf(line, " ") = -1 THEN line
    ELSE SubSeq(line, 1, IndexOf(line, " "))

\* The positions k of a colon in a line's command part such that a name of \w
\* characters stands before it and a recognized mnemonic after it.
MarkerPositions(line) ==
    LET cmd == CommandPart(line)
    IN  { k \in 2..Len(cmd) :
            /\ Ch(cmd, k) = ":"
            /\ \A j \in 1..(k - 1) : Ch(cmd, j) \in WordChars
            /\ SubSeq(cmd, k + 1, Len(cmd)) \in Mnemonics }

\* A line begins with a label marker; the name of its label.
Labelled(line) == MarkerPositions(line) # {}

LabelName(line) ==
    SubSeq(line, 1, (CHOOSE k \in MarkerPositions(line) : TRUE) - 1)

\* The mnemonic and the operands of a line, its label marker left out.
MnemonicOf(line) ==
    IF Labelled(line)
    THEN SubSeq(CommandPart(line), Len(LabelName(line)) + 2,
                Len(CommandPart(line)))
    ELSE CommandPart(line)

OperandsOf(line) ==
    IF IndexOf(line, " ") = -1 THEN << >>
    ELSE Split(SubSeq(line, IndexOf(line, " ") + 2, Len(line)), ",")

\* A key of a lookup table without a trailing colon.
KeyName(k) ==
    IF k # "" /\ Ch(k, Len(k)) = ":" THEN SubSeq(k, 1, Len(k) - 1) ELSE k

\* The 8 bytes of a 64-bit word as two-digit hex cells, byte 0 the leftmost.
IsWord64(w) == Len(w) = 64 /\ IsDigits(w, 2)

WordByte(w, b) == Format(DigitsValue(SubSeq(w, 8 * b + 1, 8 * b + 8), 2), 16, 2)

TextLen == Len(instructions)

RunDone == pc = "done" /\ error = "none"

\* C1: after a text segment of n instructions (1 <= n <= 32), each of which
\* generate_binary returned a word for, is assembled without error, the ROM
\* cursor has advanced by 8*n (as far as a cursor can show it, n < 32), the 8
\* cells from address 8*i hold the bytes of the word of instruction i (in
\* either byte order, when the word has 64 bits) and every other ROM cell is
\* zero.
C1_RomHoldsWords ==
    ( /\ RunDone
      /\ TextLen \in 1..32
      /\ \A i \in 1..TextLen : words[i] # << >> ) =>
        /\ TextLen < 32 => Addr(rom.current_loc) = 8 * TextLen
        /\ \A i \in 0..(TextLen - 1) :
              IsWord64(words[i + 1][1]) =>
                 \/ \A b \in 0..7 :
                       Cell(rom, 8 * i + b) = WordByte(words[i + 1][1], b)
                 \/ \A b \in 0..7 :
                       Cell(rom, 8 * i + b) = WordByte(words[i + 1][1], 7 - b)
        /\ \A a \in (8 * TextLen)..255 : Cell(rom, a) = "00"

\* C2: a text segment of at most 32 instructions raises no capacity error,
\* and with 33 instructions the 33rd is never encoded and no image file is
\* ever emitted.
C2_InstructionCapacity ==
    /\ (TextLen <= 32 /\ Len(memory_data) < 256) => error # "MemoryError"
    /\ TextLen = 33 =>
          /\ Len(words) <= 32
          /\ ram_file = << >>
          /\ rom_file = << >>

\* C3: a write_bytes call that raises MemoryError leaves every cell and the
\* cursor of the image as they were before the call.
C3_WriteAtomic ==
    [][ error' = "MemoryError" => rom' = rom ]_vars

\* C4: with one fixed size s, the cursor address is the number of bytes the
\* returning calls have written, which is at most 256; the call that returned
\* last returned the 8-character binary numeral of the address it started at;
\* every returning call advances the cursor by exactly s and returns the
\* address the cursor had, and no call ever moves the cursor back.
C4_CursorInv ==
    byte_size # 0 =>
        /\ Addr(rom.current_loc) = total
        /\ total <= 256
        /\ total % byte_size = 0
        /\ mem_addr # "" =>
              /\ Len(mem_addr) = 8
              /\ IsDigits(mem_addr, 2)
              /\ DigitsValue(mem_addr, 2) = total - byte_size

C4_CursorStep ==
    byte_size # 0 =>
        /\ Addr(rom.current_loc') >= Addr(rom.current_loc)
        /\ error' = "none" =>
              /\ Addr(rom.current_loc') = Addr(rom.current_loc) + byte_size
              /\ mem_addr' = Format(Addr(rom.current_loc), 2, 8)
              /\ total' = total + byte_size

C4_SequentialWrites == []C4_CursorInv /\ [][C4_CursorStep]_vars

C4_Witness ==
    /\ byte_size = 4
    /\ error = "none"
    /\ total = 252
    /\ mem_addr = "11111000"
    /\ rom.current_loc = << "f0", 12 >>

\* The prescan has run: the loop of step 3 has been entered.
Prescanned == pc \in { "binary", "rom_file", "done" }

LabelledIndices ==
    { i \in 0..(TextLen - 1) : Labelled(instructions[i + 1]) }

\* C5: after the prescan the instruction table has an entry for exactly the
\* lines that begin with a label marker (keyed by the label's name, with or
\* without its colon), and the entry of the labelled line at index i is 8*i
\* as an 8-character binary string.
C5_LabelTable ==
    Prescanned =>
        /\ { KeyName(k) : k \in DOMAIN label_lookup }
              = { LabelName(instructions[i + 1]) : i \in LabelledIndices }
        /\ \A i \in LabelledIndices :
              \A k \in DOMAIN label_lookup :
                 KeyName(k) = LabelName(instructions[i + 1]) =>
                    /\ Len(label_lookup[k]) = 8
                    /\ IsDigits(label_lookup[k], 2)
                    /\ DigitsValue(label_lookup[k], 2) = 8 * i

\* The address a label operand resolves to: the instruction table first (its
\* keys taken with or without their colon), then the data table; "" if neither.
Resolve(name) ==
    IF \E k \in DOMAIN label_lookup : KeyName(k) = name
    THEN label_lookup[CHOOSE k \in DOMAIN label_lookup : KeyName(k) = name]
    ELSE IF name \in DOMAIN memory_lookup THEN memory_lookup[name]
    ELSE ""

LabelCategories == CAT3 \cup CAT7 \cup CAT8

\* The label operand of an instruction of category 3, 7 or 8: its last one.
LabelOperand(line) == OperandsOf(line)[Len(OperandsOf(line))]

\* An 8-bit field of a word after its 40-bit opcode template.
HasField(w, field) ==
    \E f \in 0..2 :
        /\ Len(w) >= 48 + 8 * f
        /\ SubSeq(w, 41 + 8 * f, 48 + 8 * f) = field

\* C6: every encoded instruction of category 3, 7 or 8 has a label that is in
\* one of the two tables (otherwise the run would have failed before), and
\* its word carries that label's address as one of its fields.
C6_LabelResolved ==
    \A i \in 1..Len(words) :
        MnemonicOf(instructions[i]) \in LabelCategories =>
            /\ Resolve(LabelOperand(instructions[i])) # ""
            /\ words[i] # << >>
            /\ HasField(words[i][1], Resolve(LabelOperand(instructions[i])))

\* C7: every word generate_binary returns is its opcode template followed by
\* fields of 8 bits each, so that two words of one mnemonic are equally long.
C7_FixedWidth ==
    \A i \in 1..Len(words) :
        words[i] # << >> =>
            LET w == words[i][1]
            IN  /\ IsDigits(w, 2)
                /\ Len(w) >= 40
                /\ (Len(w) - 40) % 8 = 0
                /\ SubSeq(w, 1, 40) = INSTRUCTION_CODES[MnemonicOf(instructions[i])]
                /\ \A j \in 1..Len(words) :
                      ( /\ words[j] # << >>
                        /\ MnemonicOf(instructions[j]) = MnemonicOf(instructions[i]) )
                      => Len(words[j][1]) = Len(w)

\* The label and the value of a data declaration label:value.
DataLabel(line) == SubSeq(line, 1, IndexOf(line, ":"))

DataValue(line) == ParseInt(SubSeq(line, IndexOf(line, ":") + 2, Len(line)))

IsDeclaration(line) ==
    IndexOf(line, ":") # -1 /\ DataValue(line).err = "none"

\* The number of declarations already encoded without error.
DataEncoded == IF pc = "memory" THEN idx ELSE Addr(ram.current_loc)

\* C8: a declaration whose value is outside [-128, 127] never gets a byte in
\* the RAM image nor an entry in the data table, and a declaration that was
\* encoded has a value in the range, stored as its two's-complement byte.
C8_DataRange ==
    \A j \in 1..Len(memory_data) :
        IsDeclaration(memory_data[j]) =>
            LET v == DataValue(memory_data[j]).val
            IN  /\ v \notin -128..127 =>
                      /\ Cell(ram, j - 1) = "00"
                      /\ DataLabel(memory_data[j]) \notin DOMAIN memory_lookup
                /\ (pc = "memory" /\ j <= idx) =>
                      /\ v \in -128..127
                      /\ Cell(ram, j - 1) = Format(v % 256, 16, 2)

\* The least and the most significant byte of item's value in size bytes, for
\* values between -65536 and 65535.
LeastByte(v) == Format(v % 256, 16, 2)

MostByte(v, size) ==
    IF v < 0 THEN "ff"
    ELSE IF size = 2 THEN Format(v \div 256, 16, 2)
    ELSE "00"

\* C9: after a write of a value in s >= 2 bytes has returned, the lowest cell
\* it wrote holds the value's least significant byte and the highest cell its
\* most significant byte.
C9_LittleEndian ==
    (byte_size \in { 2, 4, 8, 16 } /\ mem_addr # "") =>
        LET a == DigitsValue(mem_addr, 2)
            v == ParseInt(item).val
        IN  /\ Cell(rom, a) = LeastByte(v)
            /\ Cell(rom, a + byte_size - 1) = MostByte(v, byte_size)

FilesEmitted == ram_file # << >> \/ rom_file # << >>

\* C10: an image file exists only when no error was raised and the data loop,
\* the prescan and the instruction loop have all run to their end; the
\* instruction loop starts only after the prescan, which starts only after
\* the data loop has ended; the ROM file follows the RAM file; and once an
\* error is raised the run takes no further step.
C10_Ordering ==
    /\ FilesEmitted =>
          /\ error = "none"
          /\ Addr(ram.current_loc) = Len(memory_data)
          /\ label_lookup = generate_label_lookup(instructions)
          /\ Len(words) = TextLen
    /\ rom_file # << >> => ram_file # << >>
    /\ Len(words) > 0 => label_lookup = generate_label_lookup(instructions)
    /\ (Len(words) > 0 \/ label_lookup # << >>) =>
          Addr(ram.current_loc) = Len(memory_data)
    /\ error # "none" => (pc = "raised" /\ ~FilesEmitted)
    /\ pc = "raised" => error # "none"

C10_AllOrNothing == []C10_Ordering /\ [][error = "none"]_vars

C10_Witness ==
    /\ pc = "done"
    /\ rom_file # << >>
    /\ ram_file # << >>
    /\ Len(memory_data) = 2
    /\ Len(words) = 5
    /\ label_lookup # << >>

\* The exception that ended the run was raised in the loop of step 3: every
\* declaration of the data segment has got its byte.
RaisedInBinary ==
    pc = "raised" /\ Addr(ram.current_loc) = Len(memory_data)

\* The instructions generate_binary has been called on, and what the call on
\* instruction i did: the word it returned, or the exception it raised.
Processed ==
    1..(IF RaisedInBinary THEN Len(words) + 1 ELSE Len(words))

Outcome(i) ==
    IF i <= Len(words) THEN [err |-> "none", ret |-> words[i]]
    ELSE [err |-> error, ret |-> << >>]

\* A line without its label marker, and the same instruction written the
\* other way: without its marker if it has one, behind "name:" if it has none.
PlainLine(line) ==
    IF Labelled(line)
    THEN SubSeq(line, Len(LabelName(line)) + 2, Len(line))
    ELSE line

Counterpart(line) ==
    IF Labelled(line) THEN PlainLine(line) ELSE "name:" \o line

\* C11: for every instruction line with a recognized mnemonic that
\* generate_binary was called on, the opcode lookup did not fail (the
\* mnemonic was looked up unchanged), and the call did what a call on the
\* same instruction with, respectively without, a label prefix does.
C11_StripOnlyLabel ==
    \A i \in Processed :
        MnemonicOf(instructions[i]) \in Mnemonics =>
            /\ Outcome(i).err # "KeyError"
            /\ Outcome(i) = generate_binary(rom, label_lookup,
                                            Counterpart(instructions[i]))

====
